---- MODULE Spec2Model ----
(***************************************************************************)
(* Goal-clip pipeline of SBD_Soccer (src/dataset_creation):                *)
(*   parse_game_time      -> SpecParse                                     *)
(*   determine_clip_times -> SpecWindow                                    *)
(* Strings that the code parses are sequences of one-character strings,    *)
(* so that split / strip / int are modelled by what they do.               *)
(***************************************************************************)
EXTENDS Integers, Sequences, FiniteSets, TLC

VARIABLES
    game_time_str,   \* argument of parse_game_time
    parse_pc,        \* "ready" | "returned" | "raised"
    parse_result,    \* <<video_idx, seconds>> once returned
    annotations,     \* the event records of one annotation document
    sec_before,      \* self.sec_before
    sec_after,       \* self.sec_after
    goal_idx,        \* argument of determine_clip_times (0: not called)
    window_pc,       \* "ready" | "returned" | "raised"
    clip_times,      \* <<video_idx, start_sec, end_sec>> once returned
    video,           \* the source file of cut_clip: [openable, total_frames, fps]
    cut_start_sec,   \* argument start_sec of cut_clip
    cut_end_sec,     \* argument end_sec of cut_clip
    cut_pc,          \* "off" | "ready" | "copying" | "releasing" | "done" | "raised"
    start_frame,     \* local start_frame
    end_frame,       \* local end_frame
    loop_i,          \* the counter of range(start_frame, end_frame + 1)
    cap_pos,         \* CAP_PROP_POS_FRAMES of the capture
    cap_open,        \* the capture holds the source file
    out_open,        \* the writer holds the output file
    written,         \* source frame numbers written to the output, in order
    cut_result,      \* "none" | "true" | "false": the value returned
    n_folders,       \* match folders os.listdir(source_dir) yields
    folder_no,       \* position of run's loop over them (0: before the first)
    run_pc,          \* "walking" | "in_folder" | "returned" | "done" | "raised"
    folder,          \* content of the match folder being processed
    goal_indices,    \* local goal_indices of process_folder
    goal_pos,        \* goals of the folder already handled
    folder_clips,    \* clips written for the folder: [clip_num, goal_idx, name, times]
    frame_folders,   \* frame folders created for the folder
    walk_log,        \* how process_folder ended for each folder visited
    fx_clip,         \* the video of extract_frames: [openable, n_frames, fps]
    target_fps,      \* self.target_fps
    fx_pc,           \* "off" | "ready" | "reading" | "done" | "raised"
    fx_folder,       \* save_folder exists
    fx_cap_open,     \* the capture of extract_frames holds the video
    fx_interval,     \* local interval
    frame_idx,       \* local frame_idx
    saved_idx,       \* local saved_idx
    saved,           \* images written: [name, frame], in order
    \* download_full_match.py: main, download_games, download_game_row
    dl_pc,           \* main thread: "off" | "prompt" | "submitting" | "waiting" |
                     \*              "cleanup" | "exit"
    rows,            \* the rows of filtered_df, in order
    submitted,       \* rows for which executor.map has created a task
    handed,          \* row -> number of tasks created for the row
    task_pc,         \* row -> "none" | "queued" | "running" | "fetched" |
                     \*        "done" | "gave_up" | "raised" | "not_found"
    attempt,         \* row -> loop variable of the retry loop of the running call
    nested,          \* row -> files in the nested directory of the game
    flat,            \* flat name -> [exists, files] of the flat folder
    cleanup_pos,     \* league directories visited by cleanup_nested_dirs
    removed          \* league directories cleanup_nested_dirs deleted

parseVars == <<game_time_str, parse_pc, parse_result>>

windowVars ==
    <<annotations, sec_before, sec_after, goal_idx, window_pc, clip_times>>

cutVars ==
    <<video, cut_start_sec, cut_end_sec, cut_pc, start_frame, end_frame,
      loop_i, cap_pos, cap_open, out_open, written, cut_result>>

runVars ==
    <<n_folders, folder_no, run_pc, folder, goal_indices, goal_pos,
      folder_clips, frame_folders, walk_log>>

framesVars ==
    <<fx_clip, target_fps, fx_pc, fx_folder, fx_cap_open, fx_interval,
      frame_idx, saved_idx, saved>>

dlVars ==
    <<dl_pc, rows, submitted, handed, task_pc, attempt, nested, flat,
      cleanup_pos, removed>>

vars == <<parseVars, windowVars, cutVars, runVars, framesVars, dlVars>>

----------------------------------------------------------------------------
(* Bounds *)

MaxTokens == 5      \* tokens concatenated into an arbitrary game-time string
MaxMin == 2         \* minutes of the well-formed game times enumerated
MaxEvents == 3      \* events of an annotation document
MaxFrames == 6      \* frames of a source video
MaxSec == 3         \* seconds of a clip window handed to cut_clip
MaxFolders == 2     \* match folders under the source root
MaxFolderEvents == 3  \* events of the annotation document of a match folder
MaxMatches == 5     \* rows of the filtered game list
MaxClipFrames == 7  \* readable frames of a video handed to extract_frames

----------------------------------------------------------------------------
(* Characters and Python string primitives *)

Digits == <<"0", "1", "2", "3", "4", "5", "6", "7", "8", "9">>

IsDigit(c) == \E i \in 1..10 : Digits[i] = c

DigitVal(c) == (CHOOSE i \in 1..10 : Digits[i] = c) - 1

Sep == <<" ", "-", " ">>       \* the " - " of split(" - ")

Colon == <<":">>               \* the ":" of split(":")

StartsWith(s, p) == Len(s) >= Len(p) /\ SubSeq(s, 1, Len(p)) = p

\* str.split(sep): the parts between the non-overlapping occurrences of sep,
\* found left to right.
RECURSIVE SplitFrom(_, _, _)
SplitFrom(s, sep, cur) ==
    IF s = <<>> THEN <<cur>>
    ELSE IF StartsWith(s, sep)
         THEN <<cur>> \o SplitFrom(SubSeq(s, Len(sep) + 1, Len(s)), sep, <<>>)
         ELSE SplitFrom(Tail(s), sep, Append(cur, Head(s)))

Split(s, sep) == SplitFrom(s, sep, <<>>)

\* str.strip(): drop the blanks at both ends.
RECURSIVE LStrip(_)
LStrip(s) == IF s # <<>> /\ Head(s) = " " THEN LStrip(Tail(s)) ELSE s

RECURSIVE RStrip(_)
RStrip(s) ==
    IF s # <<>> /\ s[Len(s)] = " " THEN RStrip(SubSeq(s, 1, Len(s) - 1)) ELSE s

Strip(s) == LStrip(RStrip(s))

AllDigits(s) == s # <<>> /\ \A i \in 1..Len(s) : IsDigit(s[i])

RECURSIVE DigitsValue(_)
DigitsValue(s) ==
    IF s = <<>> THEN 0
    ELSE DigitsValue(SubSeq(s, 1, Len(s) - 1)) * 10 + DigitVal(s[Len(s)])

\* int(x): blanks around the literal are ignored, one leading "-" is a sign,
\* the rest must be decimal digits; anything else raises ValueError.
IntOk(x) ==
    LET t == Strip(x)
    IN  \/ AllDigits(t)
        \/ (t # <<>> /\ Head(t) = "-" /\ AllDigits(Tail(t)))

IntVal(x) ==
    LET t == Strip(x)
    IN  IF Head(t) = "-" THEN 0 - DigitsValue(Tail(t)) ELSE DigitsValue(t)

----------------------------------------------------------------------------
(* GoalClipExtractor.parse_game_time *)

TotalSeconds_SecondsOnly(mins, secs) == mins + secs

TotalSeconds(mins, secs) == mins * 60 + secs

GameTimeParts_SplitOnDash(s) == Split(s, <<"-">>)

\* video_idx_str, time_str = game_time_str.split(" - ")
GameTimeParts(s) == Split(s, Sep)

\* time_str.strip().split(":")
TimeParts(time_str) == Split(Strip(time_str), Colon)

\* TRUE when no statement of parse_game_time raises
ParseOk(s) ==
    /\ Len(GameTimeParts(s)) = 2
    /\ IntOk(Strip(GameTimeParts(s)[1]))
    /\ Len(TimeParts(GameTimeParts(s)[2])) = 2
    /\ IntOk(TimeParts(GameTimeParts(s)[2])[1])
    /\ IntOk(TimeParts(GameTimeParts(s)[2])[2])

\* the returned pair (video_idx, mins * 60 + secs)
ParseValue(s) ==
    LET tp == TimeParts(GameTimeParts(s)[2])
    IN  << IntVal(Strip(GameTimeParts(s)[1])),
           TotalSeconds(IntVal(tp[1]), IntVal(tp[2])) >>

NoResult == <<0, 0>>

----------------------------------------------------------------------------
(* Game-time strings handed to the parser *)

\* "%d" of a non-negative number
RECURSIVE Decimal(_)
Decimal(n) ==
    IF n < 10 THEN <<Digits[n + 1]>>
    ELSE Decimal(n \div 10) \o <<Digits[(n % 10) + 1]>>

\* two-digit field of a clock ("05", "30", "120")
Pad2(n) == IF n < 10 THEN <<"0">> \o Decimal(n) ELSE Decimal(n)

\* the annotation's encoding "h - mm:ss"
FormatGameTime(h, mm, ss) ==
    Decimal(h) \o Sep \o Pad2(mm) \o Colon \o Pad2(ss)

ValidGameTimes ==
    { FormatGameTime(h, mm, ss) : h \in 1..2, mm \in 0..MaxMin, ss \in 0..59 }

Tokens ==
    { <<"1">>, <<"3">>, <<"0", "5">>, <<"7", "5">>, <<"-", "1">>,
      Sep, Colon, <<" ">> }

RECURSIVE TokenStrings(_)
TokenStrings(n) ==
    IF n = 0 THEN { <<>> }
    ELSE LET shorter == TokenStrings(n - 1)
         IN  shorter \cup { s \o t : s \in shorter, t \in Tokens }

GameTimeInputs == ValidGameTimes \cup TokenStrings(MaxTokens)

----------------------------------------------------------------------------
(* SpecParse: one call of parse_game_time on an arbitrary string *)

ParseIdle ==
    /\ game_time_str = <<>>
    /\ parse_pc = "ready"
    /\ parse_result = NoResult

WindowIdle ==
    /\ annotations = <<>>
    /\ sec_before = 0
    /\ sec_after = 0
    /\ goal_idx = 0
    /\ window_pc = "ready"
    /\ clip_times = <<0, 0, 0>>

CutIdle ==
    /\ video = [openable |-> FALSE, total_frames |-> 0, fps |-> <<1, 1>>]
    /\ cut_start_sec = 0
    /\ cut_end_sec = 0
    /\ cut_pc = "ready"
    /\ start_frame = 0
    /\ end_frame = 0
    /\ loop_i = 0
    /\ cap_pos = 0
    /\ cap_open = FALSE
    /\ out_open = FALSE
    /\ written = <<>>
    /\ cut_result = "none"

\* no folder is being processed
NoFolder ==
    [videos |-> [h \in 1..2 |-> "absent"], ann |-> "unread", annotations |-> <<>>]

RunIdle ==
    /\ n_folders = 0
    /\ folder_no = 0
    /\ run_pc = "walking"
    /\ folder = NoFolder
    /\ goal_indices = <<>>
    /\ goal_pos = 0
    /\ folder_clips = <<>>
    /\ frame_folders = <<>>
    /\ walk_log = <<>>

FramesIdle ==
    /\ fx_clip = [openable |-> FALSE, n_frames |-> 0, fps |-> 0]
    /\ target_fps = 0
    /\ fx_pc = "off"
    /\ fx_folder = FALSE
    /\ fx_cap_open = FALSE
    /\ fx_interval = 0
    /\ frame_idx = 0
    /\ saved_idx = 0
    /\ saved = <<>>

\* the downloader is not running
DlIdle ==
    /\ dl_pc = "off"
    /\ rows = <<>>
    /\ submitted = 0
    /\ handed = <<>>
    /\ task_pc = <<>>
    /\ attempt = <<>>
    /\ nested = <<>>
    /\ flat = <<>>
    /\ cleanup_pos = 0
    /\ removed = {}

InitParse ==
    /\ game_time_str \in GameTimeInputs
    /\ parse_pc = "ready"
    /\ parse_result = NoResult
    /\ WindowIdle
    /\ CutIdle
    /\ RunIdle
    /\ DlIdle
    /\ FramesIdle

ParseReturn ==
    /\ parse_pc = "ready"
    /\ ParseOk(game_time_str)
    /\ parse_pc' = "returned"
    /\ parse_result' = ParseValue(game_time_str)
    /\ UNCHANGED <<game_time_str, windowVars, cutVars, runVars, framesVars, dlVars>>

ParseRaise ==
    /\ parse_pc = "ready"
    /\ ~ParseOk(game_time_str)
    /\ parse_pc' = "raised"
    /\ UNCHANGED <<game_time_str, parse_result, windowVars, cutVars, runVars, framesVars, dlVars>>

NextParse == ParseReturn \/ ParseRaise

SpecParse == InitParse /\ [][NextParse]_vars

----------------------------------------------------------------------------
(* Properties of parse_game_time (SpecParse) *)

\* C5: every string "h - mm:ss" with h in {1,2}, mm >= 0 and 0 <= ss < 60
\* makes parse_game_time return (h, mm*60 + ss).
\* each valid game time with the pair it stands for
ValidTable ==
    { << FormatGameTime(h, mm, ss), <<h, mm * 60 + ss>> >> :
          h \in 1..2, mm \in 0..MaxMin, ss \in 0..59 }

C5_ValidGameTimeParsed ==
    parse_pc # "ready" =>
        \A e \in ValidTable :
            game_time_str = e[1]
                => parse_pc = "returned" /\ parse_result = e[2]

C5_Witness ==
    /\ parse_pc = "returned"
    /\ game_time_str = FormatGameTime(2, 1, 59)
    /\ parse_result = <<2, 119>>

\* "h - mm:ss" with h in {1,2}, mm >= 0, 0 <= ss < 60, each field a run of
\* decimal digits
IsValidGameTime(s) ==
    \E i \in 1..Len(s), j \in 1..Len(s) :
        /\ i + 4 <= j /\ j < Len(s)
        /\ AllDigits(SubSeq(s, 1, i))
        /\ DigitsValue(SubSeq(s, 1, i)) \in {1, 2}
        /\ SubSeq(s, i + 1, i + 3) = Sep
        /\ AllDigits(SubSeq(s, i + 4, j - 1))
        /\ s[j] = ":"
        /\ AllDigits(SubSeq(s, j + 1, Len(s)))
        /\ DigitsValue(SubSeq(s, j + 1, Len(s))) < 60

Contains(s, p) ==
    \E i \in 1..(Len(s) - Len(p) + 1) : SubSeq(s, i, i + Len(p) - 1) = p

CountChar(s, c) == Cardinality({ i \in 1..Len(s) : s[i] = c })

\* "%d" of a half index, and a clock field, of any sign
SignedDecimal(n) == IF n < 0 THEN <<"-">> \o Decimal(0 - n) ELSE Decimal(n)

SignedField(n) == IF n < 0 THEN <<"-">> \o Decimal(0 - n) ELSE Pad2(n)

FormatRaw(h, mm, ss) ==
    SignedDecimal(h) \o Sep \o SignedField(mm) \o Colon \o SignedField(ss)

RawHalves == -1..3

RawMinutes == {-1, 5, 75} \cup (0..MaxMin)

RawSeconds == {-1, 0, 5, 59, 60, 75}

\* C6 (amended): parse_game_time fails when the string has no " - " separator
\* or not exactly one ":"; it checks no range: "h - mm:ss" for integers of
\* any value (half outside {1,2}, ss >= 60, negative fields) returns
\* (h, mm*60 + ss).
RawTable ==
    { << FormatRaw(h, mm, ss), <<h, mm * 60 + ss>> >> :
          h \in RawHalves, mm \in RawMinutes, ss \in RawSeconds }

----------------------------------------------------------------------------
(* Event records and the configuration of main.build_config *)

SecondsBeforeGoal == 20

SecondsAfterGoal == 60

SecBeforeSet == {SecondsBeforeGoal, 2 * SecondsBeforeGoal}

SecAfterSet == {SecondsAfterGoal, SecondsAfterGoal \div 6}

\* str.lower() on the labels and visibilities that occur
Lower(str) ==
    CASE str = "Goal" -> "goal"
      [] str = "GOAL" -> "goal"
      [] str = "Kick-off" -> "kick-off"
      [] str = "KICK-OFF" -> "kick-off"
      [] str = "Visible" -> "visible"
      [] str = "Foul" -> "foul"
      [] OTHER -> str

TeamHome == <<"h", "o", "m", "e">>

TeamAway == <<"a", "w", "a", "y">>

NoTeam == <<>>          \* the record has no "team" key

\* an event record; hasGameTime = FALSE: the record has no "gameTime" key
TeamEvent(l, v, t, tm) ==
    [label |-> l, visibility |-> v, gameTime |-> t, hasGameTime |-> TRUE,
     team |-> tm]

Event(l, v, t) == TeamEvent(l, v, t, TeamHome)

EventNoTime(l, v) ==
    [label |-> l, visibility |-> v, gameTime |-> <<>>, hasGameTime |-> FALSE,
     team |-> TeamHome]

BadTime == <<"1", " ", "-", " ", "0", "0">>     \* "1 - 00": no ":" part

GoalTimes == { FormatGameTime(1, 0, 30), FormatGameTime(2, 0, 10), BadTime }

KickoffTimes == { FormatGameTime(1, 0, 45), FormatGameTime(2, 0, 0), BadTime }

EventSet ==
    { Event("Goal", "visible", t) : t \in GoalTimes }
    \cup { Event("Kick-off", v, t) :
               v \in {"visible", "not shown"}, t \in KickoffTimes }
    \cup { EventNoTime("Kick-off", "visible"),
           Event("KICK-OFF", "Visible", FormatGameTime(1, 0, 45)),
           Event("Foul", "visible", FormatGameTime(1, 0, 40)) }

RECURSIVE SeqsUpTo(_, _)
SeqsUpTo(S, n) ==
    IF n = 0 THEN { <<>> }
    ELSE LET shorter == SeqsUpTo(S, n - 1)
         IN  shorter \cup { Append(q, e) : q \in shorter, e \in S }

----------------------------------------------------------------------------
(* GoalClipExtractor.extract_goal_annotations, determine_clip_times *)

RECURSIVE GoalIndicesUpTo(_, _)
GoalIndicesUpTo(anns, n) ==
    IF n = 0 THEN <<>>
    ELSE IF Lower(anns[n].label) = "goal"
         THEN Append(GoalIndicesUpTo(anns, n - 1), n)
         ELSE GoalIndicesUpTo(anns, n - 1)

\* [i for i, ann in enumerate(annotations) if ann.get("label","").lower() == "goal"]
extract_goal_annotations(anns) == GoalIndicesUpTo(anns, Len(anns))

GoalIndexSet(anns) ==
    { extract_goal_annotations(anns)[k] :
          k \in 1..Len(extract_goal_annotations(anns)) }

\* parse_game_time(ann["gameTime"]) raises KeyError or ValueError
TimeOk(ann) == ann.hasGameTime /\ ParseOk(ann.gameTime)

StartSec_NoClamp(goal_sec, before) == goal_sec - before

\* start_sec = max(0, goal_sec - self.sec_before)
StartSec(goal_sec, before) ==
    IF goal_sec - before > 0 THEN goal_sec - before ELSE 0

\* end_sec = goal_sec + self.sec_after
DefaultEndSec(goal_sec, after) == goal_sec + after

NextIsVisibleKickoff_AnyVisibility(anns, g) ==
    /\ g + 1 <= Len(anns)
    /\ Lower(anns[g + 1].label) = "kick-off"

\* the two conditions that guard the override of end_sec
NextIsVisibleKickoff(anns, g) ==
    /\ g + 1 <= Len(anns)
    /\ Lower(anns[g + 1].label) = "kick-off"
    /\ Lower(anns[g + 1].visibility) = "visible"

EndSec_AlwaysDefault(anns, g, after) ==
    DefaultEndSec(ParseValue(anns[g].gameTime)[2], after)

\* end_sec after the try/except around the kick-off's parse_game_time
EndSec(anns, g, after) ==
    LET goal_sec == ParseValue(anns[g].gameTime)[2]
    IN  IF NextIsVisibleKickoff(anns, g) /\ TimeOk(anns[g + 1])
        THEN ParseValue(anns[g + 1].gameTime)[2]
        ELSE DefaultEndSec(goal_sec, after)

determine_clip_times_KickoffMustParse(anns, g, before, after) ==
    LET parsed == ParseValue(anns[g].gameTime)
    IN  << parsed[1], StartSec(parsed[2], before),
           IF NextIsVisibleKickoff(anns, g) /\ ~TimeOk(anns[g + 1])
           THEN 0
           ELSE EndSec(anns, g, after) >>

\* return video_idx, start_sec, end_sec
determine_clip_times(anns, g, before, after) ==
    LET parsed == ParseValue(anns[g].gameTime)
    IN  << parsed[1], StartSec(parsed[2], before), EndSec(anns, g, after) >>

----------------------------------------------------------------------------
(* SpecWindow: one call of determine_clip_times on a goal of a document *)

InitWindow ==
    /\ annotations \in SeqsUpTo(EventSet, MaxEvents)
    /\ sec_before \in SecBeforeSet
    /\ sec_after \in SecAfterSet
    /\ goal_idx = 0
    /\ window_pc = "ready"
    /\ clip_times = <<0, 0, 0>>
    /\ ParseIdle
    /\ CutIdle
    /\ RunIdle
    /\ DlIdle
    /\ FramesIdle

DetermineReturn ==
    /\ window_pc = "ready"
    /\ \E g \in GoalIndexSet(annotations) :
        /\ TimeOk(annotations[g])
        /\ goal_idx' = g
        /\ clip_times' = determine_clip_times(annotations, g, sec_before, sec_after)
    /\ window_pc' = "returned"
    /\ UNCHANGED <<annotations, sec_before, sec_after, parseVars, cutVars, runVars, framesVars, dlVars>>

DetermineRaise ==
    /\ window_pc = "ready"
    /\ \E g \in GoalIndexSet(annotations) :
        /\ ~TimeOk(annotations[g])
        /\ goal_idx' = g
    /\ window_pc' = "raised"
    /\ UNCHANGED <<annotations, sec_before, sec_after, clip_times, parseVars, cutVars, runVars, framesVars, dlVars>>

NextWindow == DetermineReturn \/ DetermineRaise

SpecWindow == InitWindow /\ [][NextWindow]_vars

----------------------------------------------------------------------------
(* Properties of determine_clip_times (SpecWindow) *)

\* the seconds parse_game_time yields for the goal that was resolved
GoalSec == ParseValue(annotations[goal_idx].gameTime)[2]

KickoffLabels == {"Kick-off", "KICK-OFF"}

VisibleValues == {"visible", "Visible"}

\* the event right after the resolved goal is a kick-off marked visible
FollowedByVisibleKickoff ==
    /\ goal_idx < Len(annotations)
    /\ annotations[goal_idx + 1].label \in KickoffLabels
    /\ annotations[goal_idx + 1].visibility \in VisibleValues

\* C1: the returned start is max(0, goalSec - secondsBefore) and never
\* negative, whatever events follow the goal.
C1_StartClamped ==
    window_pc = "returned" =>
        /\ clip_times[2] >= 0
        /\ GoalSec >= sec_before => clip_times[2] = GoalSec - sec_before
        /\ GoalSec < sec_before => clip_times[2] = 0

C1_Witness ==
    /\ window_pc = "returned"
    /\ GoalSec < sec_before
    /\ goal_idx < Len(annotations)
    /\ clip_times[2] = 0

\* C2: a goal directly followed by a visible kick-off with a parsable game
\* time gets end = the kick-off's parsed seconds, whatever secondsAfter is.
C2_EndAtVisibleKickoff ==
    (/\ window_pc = "returned"
     /\ FollowedByVisibleKickoff
     /\ TimeOk(annotations[goal_idx + 1]))
        => clip_times[3] = ParseValue(annotations[goal_idx + 1].gameTime)[2]

\* goal "1 - 00:30", kick-off "1 - 00:45" visible, before 20, after 60
C2_Witness ==
    /\ window_pc = "returned"
    /\ annotations = << Event("Goal", "visible", FormatGameTime(1, 0, 30)),
                        Event("Kick-off", "visible", FormatGameTime(1, 0, 45)) >>
    /\ sec_before = 20
    /\ sec_after = 60
    /\ clip_times = <<1, 10, 45>>

\* C3: a goal not directly followed by a visible kick-off (last event, other
\* label, or kick-off "not shown") gets end = goalSec + secondsAfter; a
\* visible kick-off further on is not consulted.
C3_DefaultEndOtherwise ==
    (window_pc = "returned" /\ ~FollowedByVisibleKickoff)
        => clip_times[3] = GoalSec + sec_after

C3_Witness ==
    /\ window_pc = "returned"
    /\ goal_idx = 1
    /\ Len(annotations) = 3
    /\ annotations[2].label = "Foul"
    /\ annotations[3] = Event("Kick-off", "visible", FormatGameTime(1, 0, 45))
    /\ clip_times[3] = GoalSec + sec_after

\* C4: every returned window has endSeconds > startSeconds and
\* startSeconds >= 0, also when the end comes from a visible kick-off in the
\* other half or not later than the start.
C4_EndAfterStart ==
    window_pc = "returned" =>
        clip_times[3] > clip_times[2] /\ clip_times[2] >= 0

----------------------------------------------------------------------------
(* GoalClipExtractor.cut_clip *)

\* frame rates CAP_PROP_FPS reports, as <<numerator, denominator>>
FpsSet == { <<1, 1>>, <<4, 3>>, <<5, 3>>, <<2, 1>> }

\* int(fps * sec): the fraction is dropped (truncation toward zero)
FrameOf(fps, sec) ==
    LET a == fps[1] * sec
    IN  IF a >= 0 THEN a \div fps[2] ELSE 0 - ((0 - a) \div fps[2])

LoopContinues_Exclusive(i, last) == i < last

\* for _ in range(start_frame, end_frame + 1)
LoopContinues(i, last) == i <= last

\* cap.read() yields a frame while the position is inside the file
ReadOk(v, pos) == 0 <= pos /\ pos < v.total_frames

----------------------------------------------------------------------------
(* SpecCut: one call of cut_clip *)

InitCut ==
    /\ video \in [openable : BOOLEAN, total_frames : 0..MaxFrames, fps : FpsSet]
    /\ cut_start_sec \in 0..MaxSec
    /\ cut_end_sec \in -1..(MaxSec + 1)
    /\ cut_pc = "ready"
    /\ start_frame = 0
    /\ end_frame = 0
    /\ loop_i = 0
    /\ cap_pos = 0
    /\ cap_open = FALSE
    /\ out_open = FALSE
    /\ written = <<>>
    /\ cut_result = "none"
    /\ ParseIdle
    /\ WindowIdle
    /\ RunIdle
    /\ DlIdle
    /\ FramesIdle

\* cap = cv2.VideoCapture(video_path); not cap.isOpened(): return False
CutOpenFails ==
    /\ cut_pc = "ready"
    /\ ~video.openable
    /\ cut_pc' = "done"
    /\ cut_result' = "false"
    /\ UNCHANGED <<video, cut_start_sec, cut_end_sec, start_frame, end_frame,
                   loop_i, cap_pos, cap_open, out_open, written>>
    /\ UNCHANGED <<parseVars, windowVars, runVars, framesVars, dlVars>>

\* open, compute the frame range, seek, create the writer
CutOpen ==
    /\ cut_pc = "ready"
    /\ video.openable
    /\ cap_open' = TRUE
    /\ start_frame' = FrameOf(video.fps, cut_start_sec)
    /\ end_frame' = FrameOf(video.fps, cut_end_sec)
    /\ cap_pos' = FrameOf(video.fps, cut_start_sec)
    /\ loop_i' = FrameOf(video.fps, cut_start_sec)
    /\ out_open' = TRUE
    /\ cut_pc' = "copying"
    /\ UNCHANGED <<video, cut_start_sec, cut_end_sec, written, cut_result>>
    /\ UNCHANGED <<parseVars, windowVars, runVars, framesVars, dlVars>>

\* ret, frame = cap.read(); out.write(frame)
CutCopyFrame ==
    /\ cut_pc = "copying"
    /\ LoopContinues(loop_i, end_frame)
    /\ ReadOk(video, cap_pos)
    /\ written' = Append(written, cap_pos)
    /\ cap_pos' = cap_pos + 1
    /\ loop_i' = loop_i + 1
    /\ UNCHANGED <<video, cut_start_sec, cut_end_sec, cut_pc, start_frame,
                   end_frame, cap_open, out_open, cut_result>>
    /\ UNCHANGED <<parseVars, windowVars, runVars, framesVars, dlVars>>

\* if not ret: break
CutReadFails ==
    /\ cut_pc = "copying"
    /\ LoopContinues(loop_i, end_frame)
    /\ ~ReadOk(video, cap_pos)
    /\ cut_pc' = "releasing"
    /\ UNCHANGED <<video, cut_start_sec, cut_end_sec, start_frame, end_frame,
                   loop_i, cap_pos, cap_open, out_open, written, cut_result>>
    /\ UNCHANGED <<parseVars, windowVars, runVars, framesVars, dlVars>>

\* the range is exhausted
CutLoopEnds ==
    /\ cut_pc = "copying"
    /\ ~LoopContinues(loop_i, end_frame)
    /\ cut_pc' = "releasing"
    /\ UNCHANGED <<video, cut_start_sec, cut_end_sec, start_frame, end_frame,
                   loop_i, cap_pos, cap_open, out_open, written, cut_result>>
    /\ UNCHANGED <<parseVars, windowVars, runVars, framesVars, dlVars>>

\* cap.release(); out.release(); return True
CutRelease ==
    /\ cut_pc = "releasing"
    /\ cap_open' = FALSE
    /\ out_open' = FALSE
    /\ cut_result' = "true"
    /\ cut_pc' = "done"
    /\ UNCHANGED <<video, cut_start_sec, cut_end_sec, start_frame, end_frame,
                   loop_i, cap_pos, written>>
    /\ UNCHANGED <<parseVars, windowVars, runVars, framesVars, dlVars>>

NextCut ==
    \/ CutOpenFails
    \/ CutOpen
    \/ CutCopyFrame
    \/ CutReadFails
    \/ CutLoopEnds
    \/ CutRelease

SpecCut == InitCut /\ [][NextCut]_vars

----------------------------------------------------------------------------
(* Properties of cut_clip (SpecCut) *)

\* the consecutive frame numbers first..last (empty when last < first)
FrameRun(first, last) ==
    [i \in 1..(IF last >= first THEN last - first + 1 ELSE 0) |-> first + i - 1]

MinOf(a, b) == IF a <= b THEN a ELSE b

\* Python round(): to the nearest integer, a tie to the even one
RoundRatio(a, d) ==
    LET fl == a \div d
        twice == 2 * (a - fl * d)
    IN  IF twice < d THEN fl
        ELSE IF twice > d THEN fl + 1
        ELSE IF fl % 2 = 0 THEN fl ELSE fl + 1

\* C10 (as claimed): startFrame = round(fps*startSeconds), endFrame =
\* min(round(fps*endSeconds), totalFrames-1); exactly the frames
\* startFrame..endFrame are written in order; success unless the source
\* cannot be opened.
C10_RoundedFrameRange ==
    cut_pc = "done" =>
        /\ cut_result = "false" <=> ~video.openable
        /\ video.openable =>
               written = FrameRun(
                   RoundRatio(video.fps[1] * cut_start_sec, video.fps[2]),
                   MinOf(RoundRatio(video.fps[1] * cut_end_sec, video.fps[2]),
                         video.total_frames - 1))

\* the frames f of the file with start <= f/fps rounded down, f <= fps*end
FramesInWindow ==
    { f \in 0..(video.total_frames - 1) :
        /\ (f + 1) * video.fps[2] > video.fps[1] * cut_start_sec
        /\ f * video.fps[2] <= video.fps[1] * cut_end_sec }

\* C10 (amended): startFrame = int(fps*startSeconds) and the last frame is
\* min(int(fps*endSeconds), totalFrames-1), fractions dropped, not rounded;
\* exactly these frames are written in order, none when startFrame is past
\* the last frame; the result is failure only when the source cannot be
\* opened.
C10_TruncatedFrameRange ==
    cut_pc = "done" =>
        /\ cut_result = "false" <=> ~video.openable
        /\ cut_result = "true" <=> video.openable
        /\ ~video.openable => written = <<>>
        /\ video.openable =>
            /\ start_frame * video.fps[2] <= video.fps[1] * cut_start_sec
            /\ (start_frame + 1) * video.fps[2] > video.fps[1] * cut_start_sec
            /\ Len(written) = Cardinality(FramesInWindow)
            /\ \A i \in 1..Len(written) : written[i] = start_frame + i - 1
            /\ \A i \in 1..Len(written) : written[i] \in FramesInWindow

\* frames copied at a rate where fps*startSeconds has a fraction
C10_Witness ==
    /\ cut_pc = "done"
    /\ cut_result = "true"
    /\ video.fps = <<5, 3>>
    /\ cut_start_sec = 1
    /\ written = <<1, 2, 3>>

\* startFrame past the last frame: nothing written, still success
C10_WitnessPastEnd ==
    /\ cut_pc = "done"
    /\ cut_result = "true"
    /\ start_frame >= video.total_frames
    /\ video.total_frames > 0
    /\ cut_end_sec > cut_start_sec
    /\ written = <<>>

----------------------------------------------------------------------------
(* Match folders: what get_video_dict, get_annotation_file and             *)
(* load_annotations find on disk                                           *)

\* a half's video file: missing, present, or present but not decodable
VideoStates == {"absent", "ok", "corrupt"}

RunEventSet ==
    { Event("Goal", "visible", FormatGameTime(1, 0, 30)),
      TeamEvent("goal", "visible", FormatGameTime(2, 0, 10), TeamAway),
      TeamEvent("Goal", "visible", BadTime, NoTeam),
      EventNoTime("Goal", "visible"),
      Event("Kick-off", "visible", FormatGameTime(1, 0, 45)),
      Event("Kick-off", "visible", BadTime),
      EventNoTime("Kick-off", "visible") }

\* ann: no annotation file | a file json.load rejects | a loadable document
FolderSet ==
    { [videos |-> v, ann |-> a, annotations |-> <<>>] :
          v \in [1..2 -> VideoStates], a \in {"none", "malformed"} }
    \cup
    { [videos |-> v, ann |-> "ok", annotations |-> q] :
          v \in [1..2 -> VideoStates],
          q \in SeqsUpTo(RunEventSet, MaxFolderEvents) }

\* any(video_dict.values())
AnyVideo(f) == \E h \in 1..2 : f.videos[h] # "absent"

VideoFound_BothHalves(f, video_idx) ==
    video_idx \in 1..2 /\ \A h \in 1..2 : f.videos[h] # "absent"

\* not (video_idx not in video_dict or not video_dict[video_idx])
VideoFound(f, video_idx) ==
    video_idx \in 1..2 /\ f.videos[video_idx] # "absent"

----------------------------------------------------------------------------
(* GoalClipExtractor.generate_clip_name *)

\* str.replace(a, b) for one-character a and b
Replace(str, a, b) == [i \in 1..Len(str) |-> IF str[i] = a THEN b ELSE str[i]]

Mp4 == <<".", "m", "p", "4">>

\* goal.get("team", "unknown")
TeamOf(goal) ==
    IF goal.team = NoTeam THEN <<"u", "n", "k", "n", "o", "w", "n">>
    ELSE goal.team

generate_clip_name_NoOrdinal(goal, clip_num) ==
    Replace(Replace(goal.gameTime, " ", "_"), ":", "-")
        \o <<"_">> \o TeamOf(goal) \o <<"_", "g", "o", "a", "l">> \o Mp4

\* f"{safe_time}_{team}_goal{clip_num}.mp4"
generate_clip_name(goal, clip_num) ==
    Replace(Replace(goal.gameTime, " ", "_"), ":", "-")
        \o <<"_">> \o TeamOf(goal)
        \o <<"_", "g", "o", "a", "l">> \o Decimal(clip_num) \o Mp4

\* os.path.splitext(clip_name)[0]
GoalFolderOf(clip_name) == SubSeq(clip_name, 1, Len(clip_name) - Len(Mp4))

----------------------------------------------------------------------------
(* SpecRun: GoalClipExtractor.run over the match folders *)

ClipNum_CountsWrittenClips(pos, clips) == Len(clips) + 1

\* the i of enumerate(goal_indices, start=1)
ClipNum(pos, clips) == pos

InitRun ==
    /\ n_folders \in 0..MaxFolders
    /\ folder_no = 0
    /\ run_pc = "walking"
    /\ folder = NoFolder
    /\ goal_indices = <<>>
    /\ goal_pos = 0
    /\ folder_clips = <<>>
    /\ frame_folders = <<>>
    /\ walk_log = <<>>
    /\ annotations = <<>>
    /\ sec_before = SecondsBeforeGoal
    /\ sec_after = SecondsAfterGoal
    /\ goal_idx = 0
    /\ window_pc = "ready"
    /\ clip_times = <<0, 0, 0>>
    /\ ParseIdle
    /\ CutIdle
    /\ FramesIdle
    /\ DlIdle

RunConfig == <<annotations, sec_before, sec_after, goal_idx, window_pc, clip_times>>

\* process_folder: no video of either half, return
ProcessFolderNoVideo ==
    /\ run_pc = "walking"
    /\ folder_no < n_folders
    /\ \E f \in FolderSet :
        /\ ~AnyVideo(f)
        /\ folder' = f
    /\ folder_no' = folder_no + 1
    /\ goal_indices' = <<>>
    /\ goal_pos' = 0
    /\ folder_clips' = <<>>
    /\ frame_folders' = <<>>
    /\ walk_log' = Append(walk_log, "no_video")
    /\ run_pc' = "returned"
    /\ UNCHANGED n_folders
    /\ UNCHANGED <<parseVars, RunConfig, cutVars, framesVars, dlVars>>

\* get_annotation_file indexing files[0] of an empty list
ProcessFolderNoAnnotation_Raises ==
    /\ run_pc = "walking"
    /\ folder_no < n_folders
    /\ \E f \in FolderSet :
        /\ AnyVideo(f)
        /\ f.ann = "none"
        /\ folder' = f
    /\ folder_no' = folder_no + 1
    /\ goal_indices' = <<>>
    /\ goal_pos' = 0
    /\ folder_clips' = <<>>
    /\ frame_folders' = <<>>
    /\ run_pc' = "raised"
    /\ UNCHANGED <<n_folders, walk_log>>
    /\ UNCHANGED <<parseVars, RunConfig, cutVars, framesVars, dlVars>>

\* process_folder: no annotation file, return
ProcessFolderNoAnnotation ==
    /\ run_pc = "walking"
    /\ folder_no < n_folders
    /\ \E f \in FolderSet :
        /\ AnyVideo(f)
        /\ f.ann = "none"
        /\ folder' = f
    /\ folder_no' = folder_no + 1
    /\ goal_indices' = <<>>
    /\ goal_pos' = 0
    /\ folder_clips' = <<>>
    /\ frame_folders' = <<>>
    /\ walk_log' = Append(walk_log, "no_annotation")
    /\ run_pc' = "returned"
    /\ UNCHANGED n_folders
    /\ UNCHANGED <<parseVars, RunConfig, cutVars, framesVars, dlVars>>

\* process_folder: json.load raises in load_annotations; neither
\* process_folder nor run catches it
ProcessFolderLoadRaises ==
    /\ run_pc = "walking"
    /\ folder_no < n_folders
    /\ \E f \in FolderSet :
        /\ AnyVideo(f)
        /\ f.ann = "malformed"
        /\ folder' = f
    /\ folder_no' = folder_no + 1
    /\ goal_indices' = <<>>
    /\ goal_pos' = 0
    /\ folder_clips' = <<>>
    /\ frame_folders' = <<>>
    /\ run_pc' = "raised"
    /\ UNCHANGED <<n_folders, walk_log>>
    /\ UNCHANGED <<parseVars, RunConfig, cutVars, framesVars, dlVars>>

\* process_folder: annotations loaded, goal_indices computed
ProcessFolderLoad ==
    /\ run_pc = "walking"
    /\ folder_no < n_folders
    /\ \E f \in FolderSet :
        /\ AnyVideo(f)
        /\ f.ann = "ok"
        /\ folder' = f
        /\ goal_indices' = extract_goal_annotations(f.annotations)
    /\ folder_no' = folder_no + 1
    /\ goal_pos' = 0
    /\ folder_clips' = <<>>
    /\ frame_folders' = <<>>
    /\ run_pc' = "in_folder"
    /\ UNCHANGED <<n_folders, walk_log>>
    /\ UNCHANGED <<parseVars, RunConfig, cutVars, framesVars, dlVars>>

\* the goal handle_single_goal is called on next
NextGoalIdx == goal_indices[goal_pos + 1]

NextGoal == folder.annotations[NextGoalIdx]

NextTimes ==
    determine_clip_times(folder.annotations, NextGoalIdx, sec_before, sec_after)

\* handle_single_goal: determine_clip_times raises, "Skipping goal (bad time)"
HandleGoalBadTime ==
    /\ run_pc = "in_folder"
    /\ goal_pos < Len(goal_indices)
    /\ ~TimeOk(NextGoal)
    /\ goal_pos' = goal_pos + 1
    /\ UNCHANGED <<n_folders, folder_no, run_pc, folder, goal_indices,
                   folder_clips, frame_folders, walk_log>>
    /\ UNCHANGED <<parseVars, RunConfig, cutVars, framesVars, dlVars>>

\* handle_single_goal: "Video index not found"
HandleGoalNoVideo ==
    /\ run_pc = "in_folder"
    /\ goal_pos < Len(goal_indices)
    /\ TimeOk(NextGoal)
    /\ ~VideoFound(folder, NextTimes[1])
    /\ goal_pos' = goal_pos + 1
    /\ UNCHANGED <<n_folders, folder_no, run_pc, folder, goal_indices,
                   folder_clips, frame_folders, walk_log>>
    /\ UNCHANGED <<parseVars, RunConfig, cutVars, framesVars, dlVars>>

\* handle_single_goal: cut_clip returns False, no frames are extracted
HandleGoalCutFails ==
    /\ run_pc = "in_folder"
    /\ goal_pos < Len(goal_indices)
    /\ TimeOk(NextGoal)
    /\ VideoFound(folder, NextTimes[1])
    /\ folder.videos[NextTimes[1]] = "corrupt"
    /\ goal_pos' = goal_pos + 1
    /\ UNCHANGED <<n_folders, folder_no, run_pc, folder, goal_indices,
                   folder_clips, frame_folders, walk_log>>
    /\ UNCHANGED <<parseVars, RunConfig, cutVars, framesVars, dlVars>>

\* handle_single_goal: the clip is cut and its frames are extracted
HandleGoalCut ==
    /\ run_pc = "in_folder"
    /\ goal_pos < Len(goal_indices)
    /\ TimeOk(NextGoal)
    /\ VideoFound(folder, NextTimes[1])
    /\ folder.videos[NextTimes[1]] = "ok"
    /\ LET clip_num == ClipNum(goal_pos + 1, folder_clips)
           clip_name == generate_clip_name(NextGoal, clip_num)
       IN  /\ folder_clips' = Append(folder_clips,
                    [clip_num |-> clip_num, goal_idx |-> NextGoalIdx,
                     name |-> clip_name, times |-> NextTimes])
           /\ frame_folders' = Append(frame_folders, GoalFolderOf(clip_name))
    /\ goal_pos' = goal_pos + 1
    /\ UNCHANGED <<n_folders, folder_no, run_pc, folder, goal_indices, walk_log>>
    /\ UNCHANGED <<parseVars, RunConfig, cutVars, framesVars, dlVars>>

\* process_folder returns after the last goal
FolderDone ==
    /\ run_pc = "in_folder"
    /\ goal_pos = Len(goal_indices)
    /\ run_pc' = "returned"
    /\ walk_log' = Append(walk_log, "processed")
    /\ UNCHANGED <<n_folders, folder_no, folder, goal_indices, goal_pos,
                   folder_clips, frame_folders>>
    /\ UNCHANGED <<parseVars, RunConfig, cutVars, framesVars, dlVars>>

\* run's loop takes the next folder name; process_folder's locals are gone
RunNextFolder ==
    /\ run_pc = "returned"
    /\ run_pc' = "walking"
    /\ folder' = NoFolder
    /\ goal_indices' = <<>>
    /\ goal_pos' = 0
    /\ folder_clips' = <<>>
    /\ frame_folders' = <<>>
    /\ UNCHANGED <<n_folders, folder_no, walk_log>>
    /\ UNCHANGED <<parseVars, RunConfig, cutVars, framesVars, dlVars>>

\* run returns after the last folder
RunDone ==
    /\ run_pc = "walking"
    /\ folder_no = n_folders
    /\ run_pc' = "done"
    /\ UNCHANGED <<n_folders, folder_no, folder, goal_indices, goal_pos,
                   folder_clips, frame_folders, walk_log>>
    /\ UNCHANGED <<parseVars, RunConfig, cutVars, framesVars, dlVars>>

NextRun ==
    \/ ProcessFolderNoVideo
    \/ ProcessFolderNoAnnotation
    \/ ProcessFolderLoadRaises
    \/ ProcessFolderLoad
    \/ HandleGoalBadTime
    \/ HandleGoalNoVideo
    \/ HandleGoalCutFails
    \/ HandleGoalCut
    \/ FolderDone
    \/ RunNextFolder
    \/ RunDone

SpecRun == InitRun /\ [][NextRun]_vars

----------------------------------------------------------------------------
(* Properties of the walk (SpecRun) *)

\* C7: whatever fails in one folder or one goal, the remaining goals and
\* folders are still processed and run does not raise.
C7_FailuresIsolated ==
    /\ run_pc # "raised"
    /\ run_pc = "done" => Len(walk_log) = n_folders

\* C8: a folder without an annotation file yields no clip and no frame set,
\* process_folder returns normally and run goes on to the next folder.
\* (run_pc = "returned": control is back in run's loop, which takes the next
\* folder or ends.)
C8_NoAnnotationNoClips ==
    (folder_no >= 1 /\ folder.ann = "none") =>
        /\ folder_clips = <<>>
        /\ frame_folders = <<>>
        /\ run_pc = "returned"
        /\ Len(walk_log) = folder_no
        /\ walk_log[folder_no] \in {"no_annotation", "no_video"}

\* a later folder is processed after one without annotation file was skipped
C8_Witness ==
    /\ Len(walk_log) = 2
    /\ walk_log[1] = "no_annotation"
    /\ walk_log[2] = "processed"
    /\ Len(folder_clips) >= 1

GoalLabels == {"Goal", "goal", "GOAL"}

\* 1-based rank of event g among the goal-labelled events of the document
GoalRank(anns, g) ==
    Cardinality({ i \in 1..g : anns[i].label \in GoalLabels })

\* the clip name ends in "goal<k>.mp4"
NameHasOrdinal(name, k) ==
    LET tail == <<"g", "o", "a", "l">> \o Decimal(k) \o Mp4
    IN  /\ Len(name) > Len(tail)
        /\ SubSeq(name, Len(name) - Len(tail) + 1, Len(name)) = tail
        /\ name[Len(name) - Len(tail)] = "_"

\* the goals of a folder whose time parses and whose half has a readable video
CuttableGoals(f) ==
    { g \in 1..Len(f.annotations) :
        /\ f.annotations[g].label \in GoalLabels
        /\ TimeOk(f.annotations[g])
        /\ \E h \in 1..2 :
               /\ ParseValue(f.annotations[g].gameTime)[1] = h
               /\ f.videos[h] = "ok" }

\* C9: the k-th goal-labelled event of a folder's document gets ordinal k,
\* also when earlier goals were skipped, so the ordinals and the clip and
\* frame folder names depend on the document only.
C9_OrdinalIsGoalRank ==
    /\ \A c \in 1..Len(folder_clips) :
        /\ folder.annotations[folder_clips[c].goal_idx].label \in GoalLabels
        /\ folder_clips[c].clip_num
               = GoalRank(folder.annotations, folder_clips[c].goal_idx)
        /\ NameHasOrdinal(folder_clips[c].name, folder_clips[c].clip_num)
        /\ frame_folders[c] \o Mp4 = folder_clips[c].name
    /\ (run_pc = "returned" /\ folder.ann = "ok" /\ AnyVideo(folder)) =>
           { folder_clips[c].goal_idx : c \in 1..Len(folder_clips) }
               = CuttableGoals(folder)

\* the second goal keeps ordinal 2 although the first one was skipped
C9_Witness ==
    /\ run_pc = "returned"
    /\ Len(goal_indices) >= 2
    /\ Len(folder_clips) = 1
    /\ folder_clips[1].clip_num = 2
    /\ ~TimeOk(folder.annotations[goal_indices[1]])

\* the halves of a folder that have no video file
AbsentHalves(f) == {h \in 1..2 : f.videos[h] = "absent"}

\* the goals of the folder's document whose time parses and whose half has a
\* decodable video
GoalsOfReadableHalves ==
    { g \in 1..Len(folder.annotations) :
        /\ folder.annotations[g].label \in GoalLabels
        /\ TimeOk(folder.annotations[g])
        /\ ParseValue(folder.annotations[g].gameTime)[1] \in 1..2
        /\ folder.videos[ParseValue(folder.annotations[g].gameTime)[1]] = "ok" }

\* C15: when the video of one half is missing and the other is present, no
\* clip and no frame folder is produced for a goal of the missing half, and
\* every goal of the present half is still cut and sampled, whatever its
\* position among the goals.
C15_MissingHalfSkipsOnlyItsGoals ==
    /\ \A c \in 1..Len(folder_clips) :
           /\ folder_clips[c].times[1] \notin AbsentHalves(folder)
           /\ ParseValue(folder.annotations[folder_clips[c].goal_idx].gameTime)[1]
                  = folder_clips[c].times[1]
    /\ Len(frame_folders) = Len(folder_clips)
    /\ (run_pc = "returned" /\ folder.ann = "ok" /\ Cardinality(AbsentHalves(folder)) = 1)
           => \A g \in GoalsOfReadableHalves :
                  \E c \in 1..Len(folder_clips) :
                      /\ folder_clips[c].goal_idx = g
                      /\ frame_folders[c] = GoalFolderOf(folder_clips[c].name)

\* the second half has no video: its goal, first in the document, is skipped
\* and the first-half goal after it is cut
C15_Witness ==
    /\ run_pc = "returned"
    /\ folder.videos = <<"ok", "absent">>
    /\ Len(folder.annotations) = 2
    /\ folder.annotations[1] = TeamEvent("goal", "visible", FormatGameTime(2, 0, 10), TeamAway)
    /\ folder.annotations[2] = Event("Goal", "visible", FormatGameTime(1, 0, 30))
    /\ Len(folder_clips) = 1
    /\ folder_clips[1].goal_idx = 2
    /\ Len(frame_folders) = 1

\* event g is followed by a visible kick-off whose gameTime is missing or
\* does not parse
UnusableKickoffAfter(anns, g) ==
    /\ g + 1 <= Len(anns)
    /\ anns[g + 1].label \in KickoffLabels
    /\ anns[g + 1].visibility \in VisibleValues
    /\ ~TimeOk(anns[g + 1])

\* C16: a goal followed by a visible kick-off whose game time is missing or
\* unparsable is not skipped: its window is the goal's half, start
\* max(0, goalSeconds - before) and the default end goalSeconds + after, and
\* its clip is cut.
C16_UnusableKickoffFallsBack ==
    /\ \A c \in 1..Len(folder_clips) :
           UnusableKickoffAfter(folder.annotations, folder_clips[c].goal_idx)
               => LET p == ParseValue(folder.annotations[folder_clips[c].goal_idx].gameTime)
                  IN  folder_clips[c].times
                          = << p[1],
                               IF p[2] > sec_before THEN p[2] - sec_before ELSE 0,
                               p[2] + sec_after >>
    /\ (run_pc = "returned" /\ folder.ann = "ok")
           => \A g \in GoalsOfReadableHalves :
                  UnusableKickoffAfter(folder.annotations, g)
                      => \E c \in 1..Len(folder_clips) : folder_clips[c].goal_idx = g

\* a goal at 1 - 00:30 followed by a visible kick-off without gameTime is
\* cut from second 10 to second 90
C16_Witness ==
    /\ run_pc = "returned"
    /\ Len(folder.annotations) >= 2
    /\ folder.annotations[1] = Event("Goal", "visible", FormatGameTime(1, 0, 30))
    /\ folder.annotations[2] = EventNoTime("Kick-off", "visible")
    /\ Len(folder_clips) = 1
    /\ folder_clips[1].times = <<1, 10, 90>>

\* C18: the clips cut in one match folder have pairwise distinct names and
\* pairwise distinct frame folders, also for goals with the same gameTime and
\* team, so no clip and no frame folder of the folder is overwritten.
C18_ClipNamesDistinct ==
    \A c, d \in 1..Len(folder_clips) :
        c # d => /\ folder_clips[c].name # folder_clips[d].name
                 /\ frame_folders[c] # frame_folders[d]
                 /\ folder_clips[c].goal_idx # folder_clips[d].goal_idx

\* two goals with the same gameTime and team were both cut
C18_Witness ==
    /\ Len(folder_clips) = 2
    /\ folder.annotations[folder_clips[1].goal_idx]
           = folder.annotations[folder_clips[2].goal_idx]
    /\ folder_clips[1].goal_idx # folder_clips[2].goal_idx

----------------------------------------------------------------------------
(* FrameExtractor.extract_frames *)

TargetFps == 25

TargetFpsSet == {TargetFps, 10}

\* what CAP_PROP_FPS reports; 0: the rate is not detected
NativeFpsSet == {0, 15, 25, 30, 48, 50, 60}

\* original_fps after the fallback to self.target_fps
EffectiveFps(native, target) == IF native <= 0 THEN target ELSE native

\* interval = max(1, int(round(original_fps / self.target_fps)))
Interval(native, target) ==
    LET r == RoundRatio(EffectiveFps(native, target), target)
    IN  IF r > 1 THEN r ELSE 1

ShouldSave_OffByOne(idx, iv) == (idx + 1) % iv = 0

\* if frame_idx % interval == 0
ShouldSave(idx, iv) == idx % iv = 0

\* "{:04d}" of a counter
Pad4(n) ==
    IF n < 10 THEN <<"0", "0", "0">> \o Decimal(n)
    ELSE IF n < 100 THEN <<"0", "0">> \o Decimal(n)
    ELSE IF n < 1000 THEN <<"0">> \o Decimal(n)
    ELSE Decimal(n)

\* f"frame_{saved_idx:04d}.jpg"
FrameName(k) ==
    <<"f", "r", "a", "m", "e", "_">> \o Pad4(k) \o <<".", "j", "p", "g">>

\* cap.read() yields a frame while unread frames remain
FrameReadOk(clip, idx) == idx < clip.n_frames

----------------------------------------------------------------------------
(* SpecFrames: one call of extract_frames *)

FramesInput ==
    /\ fx_clip \in [openable : BOOLEAN, n_frames : 0..MaxClipFrames,
                    fps : NativeFpsSet]
    /\ target_fps \in TargetFpsSet
    /\ fx_pc = "ready"
    /\ fx_folder \in BOOLEAN
    /\ fx_cap_open = FALSE
    /\ fx_interval = 0
    /\ frame_idx = 0
    /\ saved_idx = 0
    /\ saved = <<>>

InitFrames ==
    /\ FramesInput
    /\ ParseIdle
    /\ WindowIdle
    /\ CutIdle
    /\ RunIdle
    /\ DlIdle

\* ensure_dir_exists; the capture is not opened: return
ExtractOpenFails ==
    /\ fx_pc = "ready"
    /\ ~fx_clip.openable
    /\ fx_folder' = TRUE
    /\ fx_pc' = "done"
    /\ UNCHANGED <<fx_clip, target_fps, fx_cap_open, fx_interval, frame_idx,
                   saved_idx, saved>>
    /\ UNCHANGED <<parseVars, windowVars, cutVars, runVars, dlVars>>

\* ensure_dir_exists; open; read the rate; compute interval
ExtractOpen ==
    /\ fx_pc = "ready"
    /\ fx_clip.openable
    /\ fx_folder' = TRUE
    /\ fx_cap_open' = TRUE
    /\ fx_interval' = Interval(fx_clip.fps, target_fps)
    /\ frame_idx' = 0
    /\ saved_idx' = 0
    /\ fx_pc' = "reading"
    /\ UNCHANGED <<fx_clip, target_fps, saved>>
    /\ UNCHANGED <<parseVars, windowVars, cutVars, runVars, dlVars>>

\* a frame is read and written as the next numbered image
ExtractSaveFrame ==
    /\ fx_pc = "reading"
    /\ FrameReadOk(fx_clip, frame_idx)
    /\ ShouldSave(frame_idx, fx_interval)
    /\ saved' = Append(saved, [name |-> FrameName(saved_idx), frame |-> frame_idx])
    /\ saved_idx' = saved_idx + 1
    /\ frame_idx' = frame_idx + 1
    /\ UNCHANGED <<fx_clip, target_fps, fx_pc, fx_folder, fx_cap_open, fx_interval>>
    /\ UNCHANGED <<parseVars, windowVars, cutVars, runVars, dlVars>>

\* a frame is read and passed over
ExtractSkipFrame ==
    /\ fx_pc = "reading"
    /\ FrameReadOk(fx_clip, frame_idx)
    /\ ~ShouldSave(frame_idx, fx_interval)
    /\ frame_idx' = frame_idx + 1
    /\ UNCHANGED <<fx_clip, target_fps, fx_pc, fx_folder, fx_cap_open,
                   fx_interval, saved_idx, saved>>
    /\ UNCHANGED <<parseVars, windowVars, cutVars, runVars, dlVars>>

\* if not ret: break; cap.release()
ExtractRelease ==
    /\ fx_pc = "reading"
    /\ ~FrameReadOk(fx_clip, frame_idx)
    /\ fx_cap_open' = FALSE
    /\ fx_pc' = "done"
    /\ UNCHANGED <<fx_clip, target_fps, fx_folder, fx_interval, frame_idx,
                   saved_idx, saved>>
    /\ UNCHANGED <<parseVars, windowVars, cutVars, runVars, dlVars>>

NextFrames ==
    \/ ExtractOpenFails
    \/ ExtractOpen
    \/ ExtractSaveFrame
    \/ ExtractSkipFrame
    \/ ExtractRelease

SpecFrames == InitFrames /\ [][NextFrames]_vars

----------------------------------------------------------------------------
(* Properties of extract_frames (SpecFrames) *)

\* iv is max(1, r) for an integer r nearest to eff / target
IsRoundedInterval(iv, eff, target) ==
    \/ iv = 1 /\ 2 * eff <= 3 * target
    \/ /\ iv >= 1
       /\ 2 * iv * target - 2 * eff <= target
       /\ 2 * eff - 2 * iv * target <= target

CeilDiv(n, d) == (n + d - 1) \div d

\* C12: with N readable frames, interval = max(1, round(nativeFps/targetFps))
\* (targetFps for a rate <= 0); exactly the frames i with i mod interval = 0
\* are written, in order, as frame_0000, frame_0001, ... without gaps,
\* ceil(N/interval) files; N = 0 writes nothing and leaves the folder; equal
\* rates write every frame; nothing is raised.
C12_EveryIntervalthFrame ==
    /\ fx_pc # "raised"
    /\ fx_pc = "done" =>
        /\ fx_folder
        /\ ~fx_clip.openable => saved = <<>>
        /\ fx_clip.openable =>
            /\ IsRoundedInterval(fx_interval,
                   EffectiveFps(fx_clip.fps, target_fps), target_fps)
            /\ Len(saved) = CeilDiv(fx_clip.n_frames, fx_interval)
            /\ \A k \in 1..Len(saved) :
                   /\ saved[k].frame = (k - 1) * fx_interval
                   /\ saved[k].name = FrameName(k - 1)
            /\ fx_clip.n_frames = 0 => saved = <<>>
            /\ EffectiveFps(fx_clip.fps, target_fps) = target_fps
                   => Len(saved) = fx_clip.n_frames

\* 48 fps sampled at 25: every second frame of seven
C12_Witness ==
    /\ fx_pc = "done"
    /\ fx_clip = [openable |-> TRUE, n_frames |-> 7, fps |-> 48]
    /\ target_fps = 25
    /\ fx_interval = 2
    /\ Len(saved) = 4
    /\ saved[4] = [name |-> FrameName(3), frame |-> 6]

----------------------------------------------------------------------------
(* SpecHandles: one call of cut_clip or of extract_frames in which reading *)
(* or writing a frame may raise (cv2.error, OSError, KeyboardInterrupt)    *)

\* the inputs of InitCut
CutInput ==
    /\ video \in [openable : BOOLEAN, total_frames : 0..MaxFrames, fps : FpsSet]
    /\ cut_start_sec \in 0..MaxSec
    /\ cut_end_sec \in -1..(MaxSec + 1)
    /\ cut_pc = "ready"
    /\ start_frame = 0
    /\ end_frame = 0
    /\ loop_i = 0
    /\ cap_pos = 0
    /\ cap_open = FALSE
    /\ out_open = FALSE
    /\ written = <<>>
    /\ cut_result = "none"

\* cut_clip is not called
CutOff ==
    /\ video = [openable |-> FALSE, total_frames |-> 0, fps |-> <<1, 1>>]
    /\ cut_start_sec = 0
    /\ cut_end_sec = 0
    /\ cut_pc = "off"
    /\ start_frame = 0
    /\ end_frame = 0
    /\ loop_i = 0
    /\ cap_pos = 0
    /\ cap_open = FALSE
    /\ out_open = FALSE
    /\ written = <<>>
    /\ cut_result = "none"

InitHandles ==
    /\ \/ CutInput /\ FramesIdle
       \/ CutOff /\ FramesInput
    /\ ParseIdle
    /\ WindowIdle
    /\ RunIdle
    /\ DlIdle

\* cap.read() or out.write(frame) raises inside the loop of cut_clip: the
\* exception leaves cut_clip, lines 106-107 are not reached
CutFrameRaises ==
    /\ cut_pc = "copying"
    /\ LoopContinues(loop_i, end_frame)
    /\ cut_pc' = "raised"
    /\ UNCHANGED <<video, cut_start_sec, cut_end_sec, start_frame, end_frame,
                   loop_i, cap_pos, cap_open, out_open, written, cut_result>>
    /\ UNCHANGED <<parseVars, windowVars, runVars, framesVars, dlVars>>

\* cap.read() or cv2.imwrite raises inside the loop of extract_frames: the
\* exception leaves extract_frames, line 51 is not reached
ExtractFrameRaises ==
    /\ fx_pc = "reading"
    /\ fx_pc' = "raised"
    /\ UNCHANGED <<fx_clip, target_fps, fx_folder, fx_cap_open, fx_interval,
                   frame_idx, saved_idx, saved>>
    /\ UNCHANGED <<parseVars, windowVars, cutVars, runVars, dlVars>>

NextHandles ==
    \/ NextCut
    \/ CutFrameRaises
    \/ NextFrames
    \/ ExtractFrameRaises

SpecHandles == InitHandles /\ [][NextHandles]_vars

\* C11: every handle cut_clip (capture, writer) and extract_frames (capture)
\* opened is released when the operation has ended, on every exit path:
\* completion, break on a failed read, early return, exception in the loop.
C11_HandlesReleased ==
    /\ cut_pc \in {"done", "raised"} => ~cap_open /\ ~out_open
    /\ fx_pc \in {"done", "raised"} => ~fx_cap_open

----------------------------------------------------------------------------
(* download_full_match.py: main, download_games, download_game_row,        *)
(* cleanup_nested_dirs                                                     *)

\* CONFIG["max_workers"]
max_workers == 4

\* range(3) of the retry loop
Attempts == 3

\* select_resolution: the two halves and CONFIG["label_file"]
Files == <<"1_720p.mkv", "2_720p.mkv", "Labels-v2.json">>

FileSet == {Files[k] : k \in 1..Len(Files)}

\* what a successful downloadGame leaves in the nested directory
FetchedSets == {FileSet}

\* league directory of the SoccerNet game list
Leagues == <<"england_epl">>

\* row i of parsed_df: league, season and the remaining columns (date, time,
\* teams, scores), which are distinct for distinct games
Row(i) ==
    [league |-> Leagues[((i - 1) % Len(Leagues)) + 1],
     season |-> "2014-2015",
     match  |-> i]

\* a game string the pattern of fetch_games did not match: every column NaN
NanRow == [league |-> "nan", season |-> "nan", match |-> 0]

\* getListGames: league\season\match
all_games == {<<Row(i).league, Row(i).season, Row(i).match>> : i \in 1..(MaxMatches + 1)}

\* match_str: league/season/date - time home score - score away
MatchStr(row) == <<row.league, row.season, row.match>>

\* matched_games
matched_games(row) == {g \in all_games : g = MatchStr(row)}

\* game_path = matched_games[0]
GamePath(row) == CHOOSE g \in matched_games(row) : TRUE

\* flat_name: date - time home score - score away (no league, no season)
FlatName_NoMatch(row) == 0

FlatName(row) == row.match

\* a flat folder that does not exist
Absent == [exists |-> FALSE, files |-> {}]

\* a flat folder with the given files
Folder(fs) == [exists |-> TRUE, files |-> fs]

RowSet(n) == [1..n -> {Row(i) : i \in 1..n} \cup {NanRow}]

\* filtered_df: distinct games of parsed_df, or NaN rows
FilteredRows ==
    UNION {{r \in RowSet(n) : \A i \in 1..n : r[i] \in {Row(i), NanRow}} :
           n \in 1..MaxMatches}

InitDownload ==
    /\ dl_pc = "prompt"
    /\ rows \in FilteredRows
    /\ submitted = 0
    /\ handed = [i \in DOMAIN rows |-> 0]
    /\ task_pc = [i \in DOMAIN rows |-> "none"]
    /\ attempt = [i \in DOMAIN rows |-> 0]
    /\ nested = [g \in {MatchStr(rows[i]) : i \in DOMAIN rows} |-> {}]
    /\ flat = [f \in {FlatName(rows[i]) : i \in DOMAIN rows} |-> Absent]
    /\ cleanup_pos = 0
    /\ removed = {}
    /\ ParseIdle
    /\ WindowIdle
    /\ CutIdle
    /\ RunIdle
    /\ FramesIdle

\* confirm != "y": download_games returns, main goes on to the cleanup
DownloadCancelled ==
    /\ dl_pc = "prompt"
    /\ dl_pc' = "cleanup"
    /\ UNCHANGED <<rows, submitted, handed, task_pc, attempt, nested, flat,
                   cleanup_pos, removed>>
    /\ UNCHANGED <<parseVars, windowVars, cutVars, runVars, framesVars>>

\* confirm == "y": the executor is created
DownloadConfirmed ==
    /\ dl_pc = "prompt"
    /\ dl_pc' = "submitting"
    /\ UNCHANGED <<rows, submitted, handed, task_pc, attempt, nested, flat,
                   cleanup_pos, removed>>
    /\ UNCHANGED <<parseVars, windowVars, cutVars, runVars, framesVars>>

\* executor.map submits one task for the next row; after the last row it
\* returns and the with block calls shutdown(wait=True)
SubmitRow ==
    /\ dl_pc = "submitting"
    /\ submitted < Len(rows)
    /\ submitted' = submitted + 1
    /\ handed' = [handed EXCEPT ![submitted + 1] = @ + 1]
    /\ task_pc' = [task_pc EXCEPT ![submitted + 1] = "queued"]
    /\ dl_pc' = IF submitted + 1 = Len(rows) THEN "waiting" ELSE "submitting"
    /\ UNCHANGED <<rows, attempt, nested, flat, cleanup_pos, removed>>
    /\ UNCHANGED <<parseVars, windowVars, cutVars, runVars, framesVars>>

\* the tasks a worker thread is executing
Running == {i \in DOMAIN rows : task_pc[i] \in {"running", "fetched"}}

\* ThreadPoolExecutor(max_workers): a thread is idle or may still be created
WorkerFree_Unbounded == TRUE

WorkerFree == Cardinality(Running) < max_workers

\* the work queue is first in, first out
QueueHead(i) ==
    /\ task_pc[i] = "queued"
    /\ \A k \in 1..(i - 1) : task_pc[k] # "queued"

\* a worker takes the task; the game is not in all_games: warning, return
StartTaskNotFound(i) ==
    /\ QueueHead(i)
    /\ WorkerFree
    /\ matched_games(rows[i]) = {}
    /\ task_pc' = [task_pc EXCEPT ![i] = "not_found"]
    /\ UNCHANGED <<dl_pc, rows, submitted, handed, attempt, nested, flat,
                   cleanup_pos, removed>>
    /\ UNCHANGED <<parseVars, windowVars, cutVars, runVars, framesVars>>

\* a worker takes the task and enters the retry loop
StartTask(i) ==
    /\ QueueHead(i)
    /\ WorkerFree
    /\ matched_games(rows[i]) # {}
    /\ task_pc' = [task_pc EXCEPT ![i] = "running"]
    /\ attempt' = [attempt EXCEPT ![i] = 0]
    /\ UNCHANGED <<dl_pc, rows, submitted, handed, nested, flat,
                   cleanup_pos, removed>>
    /\ UNCHANGED <<parseVars, windowVars, cutVars, runVars, framesVars>>

\* for attempt in range(3)
LoopHasNext_OneMore(a) == a < Attempts + 1

LoopHasNext(a) == a < Attempts

\* downloadGame raises an Exception: next attempt, or the else branch of the
\* loop ("Giving up") and return
FetchFails(i) ==
    /\ task_pc[i] = "running"
    /\ LoopHasNext(attempt[i])
    /\ IF LoopHasNext(attempt[i] + 1)
       THEN /\ attempt' = [attempt EXCEPT ![i] = @ + 1]
            /\ UNCHANGED task_pc
       ELSE /\ attempt' = [attempt EXCEPT ![i] = 0]
            /\ task_pc' = [task_pc EXCEPT ![i] = "gave_up"]
    /\ UNCHANGED <<dl_pc, rows, submitted, handed, nested, flat,
                   cleanup_pos, removed>>
    /\ UNCHANGED <<parseVars, windowVars, cutVars, runVars, framesVars>>

\* downloadGame returns: break
FetchSucceeds(i) ==
    /\ task_pc[i] = "running"
    /\ LoopHasNext(attempt[i])
    /\ \E got \in FetchedSets :
           nested' = [nested EXCEPT ![GamePath(rows[i])] = got]
    /\ task_pc' = [task_pc EXCEPT ![i] = "fetched"]
    /\ UNCHANGED <<dl_pc, rows, submitted, handed, attempt, flat,
                   cleanup_pos, removed>>
    /\ UNCHANGED <<parseVars, windowVars, cutVars, runVars, framesVars>>

\* the content of a flat folder after os.makedirs(target_dir, exist_ok=True)
MadeDir(f) == flat[f].files

\* makedirs and the move loop run to the end: files present in the nested
\* directory are moved, the others are reported missing
MoveFiles(i) ==
    /\ task_pc[i] = "fetched"
    /\ LET g == GamePath(rows[i])
           f == FlatName(rows[i])
       IN  /\ flat' = [flat EXCEPT ![f] = Folder(MadeDir(f) \cup nested[g])]
           /\ nested' = [nested EXCEPT ![g] = {}]
    /\ task_pc' = [task_pc EXCEPT ![i] = "done"]
    /\ attempt' = [attempt EXCEPT ![i] = 0]
    /\ UNCHANGED <<dl_pc, rows, submitted, handed, cleanup_pos, removed>>
    /\ UNCHANGED <<parseVars, windowVars, cutVars, runVars, framesVars>>

\* the file of the move loop at which shutil.move raises
RaisesAt == 2

\* shutil.move raises at file RaisesAt; the files before it have been moved.
\* The exception ends the task and stays in its future, which nobody reads
MoveRaises(i) ==
    /\ task_pc[i] = "fetched"
    /\ LET g == GamePath(rows[i])
           f == FlatName(rows[i])
           moved == {Files[j] : j \in 1..(RaisesAt - 1)} \cap nested[g]
       IN  /\ Files[RaisesAt] \in nested[g]
           /\ flat' = [flat EXCEPT ![f] = Folder(MadeDir(f) \cup moved)]
           /\ nested' = [nested EXCEPT ![g] = @ \ moved]
    /\ task_pc' = [task_pc EXCEPT ![i] = "raised"]
    /\ attempt' = [attempt EXCEPT ![i] = 0]
    /\ UNCHANGED <<dl_pc, rows, submitted, handed, cleanup_pos, removed>>
    /\ UNCHANGED <<parseVars, windowVars, cutVars, runVars, framesVars>>

\* shutdown(wait=True) returns when every submitted task has ended
ShutdownWaitDone_NoWait == TRUE

ShutdownWaitDone ==
    \A i \in DOMAIN rows :
        task_pc[i] \in {"done", "gave_up", "raised", "not_found"}

\* the with block is left, download_games returns, main calls the cleanup
ExecutorExit ==
    /\ dl_pc = "waiting"
    /\ ShutdownWaitDone
    /\ dl_pc' = "cleanup"
    /\ UNCHANGED <<rows, submitted, handed, task_pc, attempt, nested, flat,
                   cleanup_pos, removed>>
    /\ UNCHANGED <<parseVars, windowVars, cutVars, runVars, framesVars>>

\* the directories os.walk lists under output_dir: the league directories
\* of the nested downloads and a flat match folder
TopDirs == Leagues \o <<"2015-02-21 - 18-00 Chelsea 1 - 1 Burnley">>

\* any(keyword in full_path.lower() for keyword in [...])
HasKeyword(d) ==
    CASE d = "england_epl" -> TRUE
      [] d = "spain_laliga" -> TRUE
      [] OTHER -> FALSE

\* shutil.rmtree(full_path) of a league directory
CleanupRemove ==
    /\ dl_pc = "cleanup"
    /\ cleanup_pos < Len(TopDirs)
    /\ HasKeyword(TopDirs[cleanup_pos + 1])
    /\ cleanup_pos' = cleanup_pos + 1
    /\ removed' = removed \cup {TopDirs[cleanup_pos + 1]}
    /\ nested' = [g \in DOMAIN nested |->
                     IF g[1] = TopDirs[cleanup_pos + 1] THEN {} ELSE nested[g]]
    /\ UNCHANGED <<dl_pc, rows, submitted, handed, task_pc, attempt, flat>>
    /\ UNCHANGED <<parseVars, windowVars, cutVars, runVars, framesVars>>

\* rmtree raises: "Could not remove", the walk goes on
CleanupFails ==
    /\ dl_pc = "cleanup"
    /\ cleanup_pos < Len(TopDirs)
    /\ HasKeyword(TopDirs[cleanup_pos + 1])
    /\ cleanup_pos' = cleanup_pos + 1
    /\ UNCHANGED <<dl_pc, rows, submitted, handed, task_pc, attempt, nested,
                   flat, removed>>
    /\ UNCHANGED <<parseVars, windowVars, cutVars, runVars, framesVars>>

\* a directory without a country keyword is left alone
CleanupSkip ==
    /\ dl_pc = "cleanup"
    /\ cleanup_pos < Len(TopDirs)
    /\ ~HasKeyword(TopDirs[cleanup_pos + 1])
    /\ cleanup_pos' = cleanup_pos + 1
    /\ UNCHANGED <<dl_pc, rows, submitted, handed, task_pc, attempt, nested,
                   flat, removed>>
    /\ UNCHANGED <<parseVars, windowVars, cutVars, runVars, framesVars>>

\* the walk is over, main returns
CleanupDone ==
    /\ dl_pc = "cleanup"
    /\ cleanup_pos = Len(TopDirs)
    /\ dl_pc' = "exit"
    /\ UNCHANGED <<rows, submitted, handed, task_pc, attempt, nested, flat,
                   cleanup_pos, removed>>
    /\ UNCHANGED <<parseVars, windowVars, cutVars, runVars, framesVars>>

NextDownload ==
    \/ DownloadCancelled
    \/ DownloadConfirmed
    \/ SubmitRow
    \/ \E i \in DOMAIN rows : StartTaskNotFound(i)
    \/ \E i \in DOMAIN rows : StartTask(i)
    \/ \E i \in DOMAIN rows : FetchFails(i)
    \/ \E i \in DOMAIN rows : FetchSucceeds(i)
    \/ \E i \in DOMAIN rows : MoveFiles(i)
    \/ \E i \in DOMAIN rows : MoveRaises(i)
    \/ ExecutorExit
    \/ CleanupRemove
    \/ CleanupFails
    \/ CleanupSkip
    \/ CleanupDone

SpecDownload == InitDownload /\ [][NextDownload]_vars

----------------------------------------------------------------------------
(* Properties of the downloader *)

Terminated == {"done", "gave_up", "raised", "not_found"}

\* the flat folder of row i
FlatOf(i) == flat[FlatName(rows[i])]

\* the state part of C13
RetryState ==
    \A i \in DOMAIN rows :
        /\ attempt[i] + 1 <= Attempts
        /\ task_pc[i] # "running" => ~ENABLED (FetchFails(i) \/ FetchSucceeds(i))
        /\ task_pc[i] \in {"none", "queued", "running", "gave_up", "not_found"}
               => FlatOf(i) = Absent

\* the step part of C13
RetryStep ==
    \A i \in DOMAIN rows :
        /\ task_pc'[i] = "gave_up" /\ task_pc[i] # "gave_up"
               => /\ task_pc[i] = "running"
                  /\ attempt[i] + 1 = Attempts
                  /\ flat' = flat
                  /\ nested' = nested
        /\ task_pc'[i] = "raised" /\ task_pc[i] # "raised"
               => task_pc[i] = "fetched"
        /\ flat'[FlatName(rows[i])] # FlatOf(i) => task_pc[i] = "fetched"
        /\ task_pc[i] = "running" /\ task_pc'[i] = "running"
               => attempt'[i] \in {attempt[i], attempt[i] + 1}

\* C13: one call of download_game_row calls downloadGame at most three times
\* (one call per iteration, attempt 0..2) and not again after a call that
\* succeeded; the flat folder is created and files are moved only after a
\* successful call; the third failure ends the call with "gave_up", nothing
\* created or moved, and the retry loop never ends the task with an exception.
C13_BoundedRetry == [] RetryState /\ [][RetryStep]_vars

\* a third call succeeded for one row while another row was given up
C13_Witness ==
    /\ \E i \in DOMAIN rows : task_pc[i] = "fetched" /\ attempt[i] + 1 = Attempts
    /\ \E i \in DOMAIN rows : task_pc[i] = "gave_up" /\ FlatOf(i) = Absent

\* the state part of C14
PoolState ==
    /\ \A i \in DOMAIN rows :
           /\ handed[i] = IF i <= submitted THEN 1 ELSE 0
           /\ task_pc[i] = "running" => ENABLED FetchSucceeds(i)
           /\ task_pc[i] = "fetched" => ENABLED MoveFiles(i)
           /\ QueueHead(i) /\ Cardinality(Running) < max_workers
                  => ENABLED (StartTask(i) \/ StartTaskNotFound(i))
    /\ dl_pc = "waiting" => submitted = Len(rows)
    /\ Cardinality(Running) <= max_workers

\* the step part of C14
PoolStep ==
    \A i \in DOMAIN rows :
        /\ task_pc'[i] # task_pc[i] /\ task_pc[i] # "none"
               => \A k \in DOMAIN rows :
                      FlatName(rows[k]) # FlatName(rows[i])
                          => flat'[FlatName(rows[k])] = FlatOf(k)
        /\ task_pc'[i] \in {"gave_up", "raised"} /\ task_pc'[i] # task_pc[i]
               => \A k \in DOMAIN rows \ {i} :
                      /\ task_pc'[k] = task_pc[k]
                      /\ attempt'[k] = attempt[k]
                      /\ rows[k] # NanRow
                             => nested'[GamePath(rows[k])] = nested[GamePath(rows[k])]

\* C14: every row of the selection gets exactly one task, at most max_workers
\* tasks are executed at a time, and a task that gives up or raises during
\* the move leaves every other task able to go on and changes no other
\* match's flat folder, whatever the interleaving of the workers.
C14_TasksIndependent == [] PoolState /\ [][PoolStep]_vars

\* the first task raised in its move with one file moved, the other four
\* rows occupy all the workers and their flat folders are untouched
C14_Witness ==
    /\ Len(rows) = max_workers + 1
    /\ task_pc[1] = "raised"
    /\ FlatOf(1) = Folder({Files[1]})
    /\ Cardinality(Running) = max_workers
    /\ \A k \in 2..Len(rows) : FlatOf(k) = Absent

\* C17: cleanup_nested_dirs runs only when every task download_games
\* submitted has ended: while the cleanup walks or after it, no task is
\* queued, fetching or about to move, and a task about to move still finds
\* the files it fetched in its nested directory.
C17_CleanupAfterTasks ==
    /\ dl_pc \in {"cleanup", "exit"}
           => \/ submitted = 0
              \/ /\ submitted = Len(rows)
                 /\ \A i \in DOMAIN rows : task_pc[i] \in Terminated
    /\ \A i \in DOMAIN rows :
           task_pc[i] = "fetched"
               => /\ removed = {}
                  /\ nested[GamePath(rows[i])] \in FetchedSets

\* the cleanup deleted the league directory after a task had moved its files
\* and another had raised in its move
C17_Witness ==
    /\ dl_pc = "exit"
    /\ removed = {Leagues[1]}
    /\ \E i \in DOMAIN rows : task_pc[i] = "done" /\ FlatOf(i) = Folder(FileSet)
    /\ \E i \in DOMAIN rows :
           task_pc[i] = "raised" /\ nested[GamePath(rows[i])] = {}

====
